---- MODULE Spec2Model ----
(***************************************************************************)
(* pynamodb/settings.py: the Settings class (override file, default table, *)
(* attribute lookup) and its metaclass SettingsMeta, which keeps the       *)
(* lazily created `Settings.default` singleton behind a lock.              *)
(*                                                                         *)
(* Python objects are numbered: None is 0, the Settings instances are      *)
(* 1..n in order of construction, any other object is a negative number.  *)
(* Setting values are written as their Python literals ("15", "False",    *)
(* "'us-east-1'") so that values of different Python types can be compared.*)
(* An optional string (an argument that may be None, an environment        *)
(* variable that may be unset) is a sequence of length 0 or 1.             *)
(***************************************************************************)
EXTENDS Integers, Sequences, FiniteSets, TLC

\* ---------------------------------------------------------------- bounds
NThreads == 2
MaxInstances == 2

Threads == 1..NThreads

\* ------------------------------------------------------------- constants
None == 0
Free == 0
OtherObject == 0 - 1

DEFAULT == "default"
MODULE_NAME == "__pynamodb_override_settings__"
DEFAULT_PATH == "/etc/pynamodb/global_default_settings.py"

DEFAULT_SETTINGS ==
    [connect_timeout_seconds |-> "15",
     read_timeout_seconds |-> "30",
     max_retry_attempts |-> "3",
     max_pool_connections |-> "10",
     base_backoff_ms |-> "25",
     region |-> "'us-east-1'",
     allow_rate_limited_scan_without_consumed_capacity |-> "False"]

OBSOLETE_META_ATTRIBUTES == <<"session_cls", "request_timeout_seconds">>

\* The keys looked up: the recognized ones, the obsolete ones, one unknown.
Keys ==
    (DOMAIN DEFAULT_SETTINGS) \cup {"session_cls", "request_timeout_seconds", "unknown_key"}

\* ------------------------------------------------------- the file system
\* What executing the file at `path` binds at module level.
FileNamespace(path) ==
    CASE path = "a.py" -> [region |-> "'eu-west-1'", session_cls |-> "1"]
      [] path = "b.py" -> [max_retry_attempts |-> "7"]
      [] OTHER -> [k \in {} |-> ""]

\* Files whose source does not compile: loading them raises SyntaxError
\* before any statement runs.
Malformed == {"bad.py"}

\* The files that exist; there is none at DEFAULT_PATH.
Files == {"a.py", "b.py", "bad.py"}

\* PYNAMODB_CONFIG as a constructor run may find it: unset, or a path.
EnvValues == {<<>>, <<"a.py">>, <<"bad.py">>}

\* The settings_path arguments tried.
PathArgs == {<<>>, <<"">>, <<"a.py">>, <<"b.py">>, <<"bad.py">>, <<"missing.py">>}

VARIABLES
    _settings,           \* SettingsMeta: Settings._settings, the singleton slot
    _lock,               \* SettingsMeta: Settings._lock, Free or the holding thread
    pc,                  \* where each thread is inside Settings.default get/set
    value,               \* the value each thread is assigning to Settings.default
    n,                   \* number of Settings instances constructed so far
    _override_settings,  \* per instance: "None" or "module"
    sys_modules,         \* MODULE_NAME in sys.modules
    module_dict,         \* namespace of the module object sys.modules[MODULE_NAME]
    last,                \* the most recent call: what it was given and gave back
    replaced,            \* some assignment to Settings.default has completed
    cur_created          \* successful Settings() runs inside Settings.default

vars ==
    <<_settings, _lock, pc, value, n, _override_settings, sys_modules, module_dict,
      last, replaced, cur_created>>

\* ------------------------------------------------------ Python primitives
\* bool(x) of an object: None is false; a Settings instance (no __bool__,
\* no __len__ on the class) and the other objects considered are true.
Truthy(x) == x # None

\* `not settings_path`: None and '' are false.
FalsyPath(p) == p = <<>> \/ p = <<"">>

\* getenv(name, default)
getenv(e, default) == IF e = <<>> THEN default ELSE e[1]

\* os.path.isfile(path)
isfile(path) == path \in Files

\* hasattr(module, key), over the module's namespace d
hasattr(d, key) == key \in DOMAIN d

\* isinstance(value, Settings), with n instances constructed
isinstance_Settings(x, cnt) == x \in 1..cnt

\* ------------------------------------------------------------ _load_module
\* SourceFileLoader(name, path).load_module(): a name already in
\* sys.modules is re-executed in the module object it has (its bindings are
\* kept and the file's are written over them); otherwise the file is
\* executed in a new module object.
Exec(d, path) ==
    [k \in (DOMAIN d) \cup (DOMAIN FileNamespace(path)) |->
        IF k \in DOMAIN FileNamespace(path) THEN FileNamespace(path)[k] ELSE d[k]]

_load_module(loaded, d, path) ==
    IF loaded THEN Exec(d, path) ELSE FileNamespace(path)

\* load_module raises (the source does not compile)
LoadRaises(path) == path \in Malformed

\* ------------------------------------------------------------ the call log
\* One record per call: op names the call, x the instance or argument, key
\* and val a lookup (for Settings.default, key tells the unlocked return
\* from the locked one), exc the exception raised, path and warned what a
\* constructor run looked at and warned about.
NoCall ==
    [op |-> "none", x |-> None, key |-> "", val |-> "", exc |-> "", path |-> "",
     warned |-> <<>>]

Returned(op, x, key, val) == [NoCall EXCEPT !.op = op, !.x = x, !.key = key, !.val = val]

Raised(op, x, exc, path) == [NoCall EXCEPT !.op = op, !.x = x, !.exc = exc, !.path = path]

Constructed(op, x, path, warned) ==
    [NoCall EXCEPT !.op = op, !.x = x, !.path = path, !.warned = warned]

\* ----------------------------------------------------------- Settings.__init__
\* lines 86-87: the path the constructor looks at
ResolvePath(settings_path, e) ==
    IF FalsyPath(settings_path) THEN getenv(e, DEFAULT_PATH) ELSE settings_path[1]

\* Variant: the else branch of line 94 keeps a module reference.
OverrideRef_stale(found) == "module"

\* lines 88, 95: what self._override_settings is bound to
OverrideRef(found) == IF found THEN "module" ELSE "None"

\* lines 90-92: the warnings issued, in order
Warnings(d) == SelectSeq(OBSOLETE_META_ATTRIBUTES, LAMBDA a : hasattr(d, a))

\* The constructor run on settings_path raises (line 89).
InitRaises(settings_path, environ) ==
    LET path == ResolvePath(settings_path, environ)
    IN  isfile(path) /\ LoadRaises(path)

\* lines 83-97, for a run that does not raise: instance n + 1 is bound.
\* op and ret are the call that ran the constructor and what it returns.
SettingsInit(op, ret, settings_path, environ) ==
    LET path == ResolvePath(settings_path, environ)
        found == isfile(path)
    IN  /\ n' = n + 1
        /\ _override_settings' = Append(_override_settings, OverrideRef(found))
        /\ IF found
           THEN /\ module_dict' = _load_module(sys_modules, module_dict, path)
                /\ sys_modules' = TRUE
           ELSE UNCHANGED <<sys_modules, module_dict>>
        /\ last' = Constructed(op, ret, path,
                               IF found THEN Warnings(module_dict') ELSE <<>>)

\* --------------------------------------------------------- Settings.__getattr__
\* The namespace behind an instance's _override_settings: absent, or the
\* module object's current namespace.
OverrideDict(ref) == IF ref = "module" THEN module_dict ELSE [k \in {} |-> ""]

\* Variant: the default table is consulted before the override.
Settings_getattr_defaults_first(ref, d, key) ==
    IF key \in DOMAIN DEFAULT_SETTINGS THEN DEFAULT_SETTINGS[key]
    ELSE IF ref # "None" /\ hasattr(d, key) THEN d[key]
    ELSE "None"

\* lines 104-110
Settings_getattr(ref, d, key) ==
    IF ref # "None" /\ hasattr(d, key) THEN d[key]
    ELSE IF key \in DOMAIN DEFAULT_SETTINGS THEN DEFAULT_SETTINGS[key]
    ELSE "None"

\* instance.key for the i-th instance
GetOf(i, key) ==
    Settings_getattr(_override_settings[i], OverrideDict(_override_settings[i]), key)

\* ------------------------------------------------------------------- Init
Init ==
    /\ _settings = None
    /\ _lock = Free
    /\ pc = [t \in Threads |-> "idle"]
    /\ value = [t \in Threads |-> None]
    /\ n = 0
    /\ _override_settings = <<>>
    /\ sys_modules = FALSE
    /\ module_dict = [k \in {} |-> ""]
    /\ last = NoCall
    /\ replaced = FALSE
    /\ cur_created = 0

\* ------------------------------------------- SettingsMeta.__getattr__('default')
\* Variant: no unlocked return; every call goes to the lock.
FastPathHit_never(settings) == FALSE

\* line 58: the unlocked test of the local `settings`
FastPathHit(settings) == Truthy(settings)

\* Variant: the slot is not tested again under the lock.
NeedsCreate_always(slot) == TRUE

\* line 62: `not self._settings`, under the lock
NeedsCreate(slot) == ~Truthy(slot)

\* Variant: line 64 returns the local read at line 57.
LockedReturn_local(settings, slot) == settings

\* line 64: the value returned under the lock (`settings` is the local of line 57)
LockedReturn(settings, slot) == slot

\* Variant: acquire and release without try/finally, so an exception
\* leaves the lock with the thread.
LockAfterRaise_leaked(t) == t

\* lines 61-64: the lock once an exception has left the `with` block
LockAfterRaise(t) == Free

\* lines 55-59: read the slot without the lock; return it if it is set
GetDefault(t) ==
    /\ pc[t] = "idle"
    /\ LET settings == _settings
       IN  IF FastPathHit(settings)
           THEN /\ last' = Returned(DEFAULT, settings, "fast", "")
                /\ UNCHANGED pc
           ELSE /\ pc' = [pc EXCEPT ![t] = "get_lock"]
                /\ UNCHANGED last
    /\ UNCHANGED <<_settings, _lock, value, n, _override_settings, sys_modules,
                   module_dict, replaced, cur_created>>

\* lines 61-62, 64: `with self._lock` entered and the slot tested. A slot
\* that is set is returned and the lock left at once: nothing another
\* thread can see happens in between.
GetDefaultLock(t) ==
    /\ pc[t] = "get_lock"
    /\ _lock = Free
    /\ IF NeedsCreate(_settings)
       THEN /\ _lock' = t
            /\ pc' = [pc EXCEPT ![t] = "get_create"]
            /\ UNCHANGED last
       ELSE /\ _lock' = Free
            /\ pc' = [pc EXCEPT ![t] = "idle"]
            /\ last' = Returned(DEFAULT, LockedReturn(None, _settings), "locked", "")
    /\ UNCHANGED <<_settings, value, n, _override_settings, sys_modules, module_dict,
                   replaced, cur_created>>

\* lines 63-64: self._settings = Settings() and return self._settings,
\* leaving the `with` block; an exception of the constructor leaves it too.
\* The log keeps the constructor run; the instance returned is the slot.
GetDefaultCreate(t) ==
    /\ pc[t] = "get_create"
    /\ n < MaxInstances
    /\ \E environ \in EnvValues :
          IF InitRaises(<<>>, environ)
          THEN /\ _lock' = LockAfterRaise(t)
               /\ last' = Raised(DEFAULT, None, "SyntaxError", ResolvePath(<<>>, environ))
               /\ UNCHANGED <<_settings, cur_created, n, _override_settings,
                              sys_modules, module_dict>>
          ELSE /\ SettingsInit(DEFAULT, LockedReturn(None, n + 1), <<>>, environ)
               /\ _settings' = n + 1
               /\ cur_created' = cur_created + 1
               /\ _lock' = Free
    /\ pc' = [pc EXCEPT ![t] = "idle"]
    /\ UNCHANGED <<value, replaced>>

\* ------------------------------------------- SettingsMeta.__setattr__('default')
\* Variant: no isinstance test.
SetDefaultRaises_unchecked(x, cnt) == FALSE

\* line 69: the argument is rejected
SetDefaultRaises(x, cnt) == ~isinstance_Settings(x, cnt)

\* Variant: the assignment does not wait for the lock.
SetDefaultMayEnter_unlocked(lock) == TRUE

\* line 71: the lock can be entered
SetDefaultMayEnter(lock) == lock = Free

\* lines 68-70: Settings.default = x
SetDefault(t, x) ==
    /\ pc[t] = "idle"
    /\ IF SetDefaultRaises(x, n)
       THEN /\ last' = Raised("set_default", x, "ValueError", "")
            /\ UNCHANGED <<pc, value>>
       ELSE /\ pc' = [pc EXCEPT ![t] = "set_lock"]
            /\ value' = [value EXCEPT ![t] = x]
            /\ UNCHANGED last
    /\ UNCHANGED <<_settings, _lock, n, _override_settings, sys_modules, module_dict,
                   replaced, cur_created>>

\* line 71: `with self._lock` entered
SetDefaultLock(t) ==
    /\ pc[t] = "set_lock"
    /\ SetDefaultMayEnter(_lock)
    /\ _lock' = t
    /\ pc' = [pc EXCEPT ![t] = "set_assign"]
    /\ UNCHANGED <<_settings, value, n, _override_settings, sys_modules, module_dict,
                   last, replaced, cur_created>>

\* line 72: self._settings = value, leaving the `with` block
SetDefaultAssign(t) ==
    /\ pc[t] = "set_assign"
    /\ _settings' = value[t]
    /\ replaced' = TRUE
    /\ _lock' = Free
    /\ pc' = [pc EXCEPT ![t] = "idle"]
    /\ value' = [value EXCEPT ![t] = None]
    /\ UNCHANGED <<n, _override_settings, sys_modules, module_dict, last,
                   cur_created>>

\* ---------------------------------------------------- calls made by any thread
\* Settings(settings_path), called directly. One instance number is kept
\* for the singleton while the slot is empty.
NewSettings(t, settings_path) ==
    /\ pc[t] = "idle"
    /\ n + (IF _settings = None THEN 1 ELSE 0) < MaxInstances
    /\ \E environ \in EnvValues :
          IF InitRaises(settings_path, environ)
          THEN /\ last' = Raised("Settings", None, "SyntaxError",
                                 ResolvePath(settings_path, environ))
               /\ UNCHANGED <<n, _override_settings, sys_modules, module_dict>>
          ELSE SettingsInit("Settings", n + 1, settings_path, environ)
    /\ UNCHANGED <<_settings, _lock, pc, value, replaced, cur_created>>

\* instance.key (Settings.__getattr__) on the i-th instance
Get(t, i, key) ==
    /\ pc[t] = "idle"
    /\ i \in 1..n
    /\ last' = Returned("get", None, key, GetOf(i, key))
    /\ UNCHANGED <<_settings, _lock, pc, value, n, _override_settings, sys_modules,
                   module_dict, replaced, cur_created>>

\* instance.get_session(): a new botocore Session each time
GetSession(t, i) ==
    /\ pc[t] = "idle"
    /\ i \in 1..n
    /\ last' = Returned("get_session", None, "", "Session")
    /\ UNCHANGED <<_settings, _lock, pc, value, n, _override_settings, sys_modules,
                   module_dict, replaced, cur_created>>

\* The keys read by the Get action.
GetKeys == {"region", "unknown_key"}

\* The values assigned to Settings.default: None, another object, an instance.
SetValues == {None, OtherObject} \cup (1..n)

Next ==
    \/ \E t \in Threads : GetDefault(t)
    \/ \E t \in Threads : GetDefaultLock(t)
    \/ \E t \in Threads : GetDefaultCreate(t)
    \/ \E t \in Threads : \E x \in SetValues : SetDefault(t, x)
    \/ \E t \in Threads : SetDefaultLock(t)
    \/ \E t \in Threads : SetDefaultAssign(t)
    \/ \E t \in Threads : \E p \in PathArgs : NewSettings(t, p)
    \/ \E t \in Threads : \E i \in 1..MaxInstances : \E k \in GetKeys : Get(t, i, k)
    \/ \E t \in Threads : \E i \in 1..MaxInstances : GetSession(t, i)

Spec == Init /\ [][Next]_vars

\* ================================================================ claims
\* The documented table of recognized keys and defaults.
DocumentedDefault(key) ==
    CASE key = "connect_timeout_seconds" -> "15"
      [] key = "read_timeout_seconds" -> "30"
      [] key = "max_retry_attempts" -> "3"
      [] key = "max_pool_connections" -> "10"
      [] key = "base_backoff_ms" -> "25"
      [] key = "region" -> "'us-east-1'"
      [] key = "allow_rate_limited_scan_without_consumed_capacity" -> "False"
      [] OTHER -> "None"

RecognizedKeys ==
    {"connect_timeout_seconds", "read_timeout_seconds", "max_retry_attempts",
     "max_pool_connections", "base_backoff_ms", "region",
     "allow_rate_limited_scan_without_consumed_capacity"}

ObsoleteNames == {OBSOLETE_META_ATTRIBUTES[j] : j \in DOMAIN OBSOLETE_META_ATTRIBUTES}

\* The reference lookup of instance i: override, then documented default,
\* then absent.
RefLookup(i, key) ==
    IF _override_settings[i] # "None" /\ key \in DOMAIN module_dict
    THEN module_dict[key]
    ELSE IF key \in RecognizedKeys THEN DocumentedDefault(key) ELSE "None"

\* A step in which thread t leaves the given place of its call.
Leaves(t, place) == pc[t] = place /\ pc'[t] # place

\* A call of the given kind returned or raised in this step.
Logged(ops) == last' # last /\ last'.op \in ops

\* C1: while no assignment to Settings.default has completed, the
\* constructor has run to its end inside Settings.default at most once, every value Settings.default returns is the
\* instance in the slot, and a slot that is set was set by that one run.
C1_SingleInstance ==
    (~replaced) =>
        /\ cur_created <= 1
        /\ (_settings # None) => (cur_created = 1 /\ _settings \in 1..n)
        /\ (last.op = DEFAULT /\ last.exc = "") =>
              (last.x = _settings /\ last.x # None /\ cur_created = 1)

\* Two first-time callers passed the unlocked test; one has created and
\* returned the instance while the other still waits for the lock.
C1_Witness ==
    /\ ~replaced /\ cur_created = 1
    /\ last.op = DEFAULT /\ last.exc = "" /\ last.x = _settings
    /\ \E t \in Threads : pc[t] = "get_lock"

DocumentedPath(arg, e) ==
    CASE arg # <<>> /\ arg # <<"">> -> arg[1]
      [] OTHER -> IF Len(e) = 1 THEN e[1] ELSE "/etc/pynamodb/global_default_settings.py"

\* C3: the constructor looks at the documented path; a constructor run whose
\* path is not an existing file does not raise and binds an instance
\* without override; and an instance without override gives the documented
\* default for every recognized key.
C3_MissingFileDefaults ==
    /\ \A arg \in PathArgs : \A e \in EnvValues \cup {<<"">>} :
          ResolvePath(arg, e) = DocumentedPath(arg, e)
    /\ (last.op \in {DEFAULT, "Settings"} /\ last.path # "" /\ last.path \notin Files) =>
          (last.exc = "" /\ n >= 1 /\ last.x = n /\ _override_settings[n] = "None")
    /\ \A i \in 1..n : (_override_settings[i] = "None") =>
          \A key \in RecognizedKeys : GetOf(i, key) = DocumentedDefault(key)

\* The first Settings.default, with PYNAMODB_CONFIG unset and no file at the
\* default path, has installed an instance whose region is the default.
C3_Witness ==
    /\ last.op = DEFAULT /\ last.path = DEFAULT_PATH /\ last.exc = ""
    /\ _settings = n /\ n >= 1 /\ GetOf(n, "region") = "'us-east-1'"

\* C4: assigning a value that is not a Settings instance raises ValueError at
\* once and changes neither the slot nor the lock nor any thread's place;
\* only instances get past the test, and only instances are installed.
C4_InvalidReplaceRejected ==
    [][/\ Logged({"set_default"}) =>
             /\ last'.exc = "ValueError" /\ last'.x \notin 1..n
             /\ _settings' = _settings /\ _lock' = _lock /\ pc' = pc
       /\ \A t \in Threads :
             /\ (Leaves(t, "idle") /\ pc'[t] = "set_lock") => value'[t] \in 1..n
             /\ Leaves(t, "set_assign") => _settings' \in 1..n]_vars

\* None was assigned to an initialized slot, and the slot still holds its
\* instance with the lock free.
C4_Witness ==
    /\ last.op = "set_default" /\ last.exc = "ValueError" /\ last.x = None
    /\ _settings # None /\ _lock = Free

\* C5: a slot that is set changes only by the assignment of a later
\* Settings.default = x, which leaves x in it; once an assignment has
\* completed, Settings.default returns the slot's instance and runs no
\* constructor.
C5_ReplaceNotLost ==
    [][/\ (_settings # None /\ _settings' # _settings) =>
             \E t \in Threads : Leaves(t, "set_assign")
       /\ \A t \in Threads : Leaves(t, "set_assign") => _settings' = value[t]
       /\ (replaced /\ Logged({DEFAULT})) =>
             /\ last'.exc = "" /\ last'.path = ""
             /\ last'.x = _settings /\ _settings' = _settings
             /\ n' = n /\ cur_created' = cur_created]_vars

\* A caller that had passed the unlocked test on the empty slot took the
\* lock after an assignment completed and returned the assigned instance;
\* no constructor ever ran inside Settings.default.
C5_Witness ==
    /\ replaced /\ cur_created = 0
    /\ last.op = DEFAULT /\ last.key = "locked" /\ last.x = _settings

\* C6: once an instance is constructed, no step changes what a lookup on it
\* returns, for any key.
C6_InstanceImmutable ==
    [][\A i \in 1..n : \A key \in Keys : GetOf(i, key)' = GetOf(i, key)]_vars

\* The number of times name a was warned about.
Count(a, w) == Cardinality({j \in DOMAIN w : w[j] = a})

\* C7: a constructor run on an existing file that defines the set D of
\* obsolete names binds an instance, warns exactly once for each name in D
\* and not at all for the other obsolete names, and recognized keys are
\* looked up as if no obsolete name were defined.
C7_ObsoleteWarnings ==
    (last.op \in {DEFAULT, "Settings"} /\ last.exc = "" /\ last.path \in Files) =>
        /\ n >= 1 /\ last.x = n /\ _override_settings[n] = "module"
        /\ \A a \in ObsoleteNames :
              Count(a, last.warned) =
                  IF a \in DOMAIN FileNamespace(last.path) THEN 1 ELSE 0
        /\ \A key \in RecognizedKeys :
              GetOf(n, key) =
                  Settings_getattr("module",
                      [k \in (DOMAIN module_dict) \ ObsoleteNames |-> module_dict[k]], key)

\* C8: the slot is empty or holds an instance; once set it is never empty
\* again; it leaves the empty state only by the constructor run of
\* Settings.default or by the assignment of Settings.default = x; and
\* Settings.default never returns the absent value.
C8_SlotStateMachine ==
    [][/\ _settings \in {None} \cup (1..n)
       /\ _settings' \in {None} \cup (1..n')
       /\ (_settings # None) => (_settings' # None)
       /\ (_settings = None /\ _settings' # None) =>
             \E t \in Threads : Leaves(t, "get_create") \/ Leaves(t, "set_assign")
       /\ (Logged({DEFAULT}) /\ last'.exc = "") => last'.x \in 1..n']_vars

\* Uninitialized, then initialized by Settings.default, then another
\* instance installed by an assignment and returned by Settings.default.
C8_Witness ==
    /\ cur_created = 1 /\ replaced /\ _settings # None
    /\ last.op = DEFAULT /\ last.key = "fast" /\ last.x = _settings

\* The places of a call at which the thread holds the lock.
Locked == {"get_create", "set_assign"}

\* C9: the lock is held exactly by a thread inside the locked part of
\* Settings.default or of its assignment; a lookup or get_session can be
\* made by any thread not inside such a call whoever holds the lock, and
\* neither touches the lock; and Settings.default on a slot that is set
\* returns without waiting for the lock.
C9_LockScope ==
    /\ [](/\ \A t \in Threads : (_lock = t) <=> (pc[t] \in Locked)
          /\ _lock \in {Free} \cup Threads
          /\ \A t \in Threads : (pc[t] = "idle") =>
                /\ \A i \in 1..n : ENABLED Get(t, i, "region") /\ ENABLED GetSession(t, i)
                /\ ENABLED GetDefault(t))
    /\ [][/\ Logged({"get", "get_session"}) => (_lock' = _lock /\ pc' = pc)
          /\ \A t \in Threads :
                (pc[t] = "idle" /\ _settings # None) => pc'[t] # "get_lock"
         ]_vars

\* While another thread holds the lock inside an assignment, a caller got
\* the instance through the unlocked path.
C9_Witness ==
    /\ \E t \in Threads : pc[t] = "set_assign" /\ _lock = t
    /\ \E u \in Threads : pc[u] = "idle"
    /\ last.op = DEFAULT /\ last.key = "fast" /\ last.x = _settings

\* C10: a constructor run that raises inside Settings.default reaches the
\* caller as the exception, leaves the lock free and the slot empty and
\* binds no instance; a caller that takes the lock with the slot empty runs
\* the constructor again; and the constructor succeeds there at most once,
\* always on an empty slot.
C10_FailedConstruction ==
    /\ [](cur_created <= 1)
    /\ [][\A t \in Threads :
             /\ (Leaves(t, "get_create") /\ cur_created' = cur_created) =>
                   /\ _lock' = Free /\ _settings = None /\ _settings' = None
                   /\ n' = n /\ _override_settings' = _override_settings
                   /\ last'.op = DEFAULT /\ last'.exc = "SyntaxError"
             /\ (Leaves(t, "get_lock") /\ _settings = None) => pc'[t] = "get_create"
             /\ (cur_created' # cur_created) =>
                   (_settings = None /\ _settings' = n' /\ n' = n + 1)
         ]_vars

\* A run of the constructor inside Settings.default has just raised: the
\* slot is empty, the lock is free, and another first-time caller that was
\* waiting for the lock can take it.
C10_Witness ==
    /\ last.op = DEFAULT /\ last.exc = "SyntaxError"
    /\ _settings = None /\ _lock = Free /\ cur_created = 0
    /\ \E t \in Threads : pc[t] = "get_lock" /\ ENABLED GetDefaultLock(t)

====
